---------------------------- MODULE Spec2Model ----------------------------
(***************************************************************************)
(* A model of the UDPipe C wrapper (udpipe_wrapper.cpp): the StringArena   *)
(* bump allocator, the structured document builders, the release           *)
(* operations and the parallel batch scheduler.                            *)
(*                                                                         *)
(* The specifications below share one set of definitions:                  *)
(*   SpecArena     sequences of StringArena::allocate calls on two arenas  *)
(*   SpecDoc       one caller using udpipe_tag_structured,                 *)
(*                 udpipe_tokenize_structured and udpipe_free_doc          *)
(*   SpecBatch     one udpipe_tag_batch call with its worker threads,      *)
(*                 followed by the caller's release calls                  *)
(*   SpecBatchFair SpecBatch with every thread scheduled fairly            *)
(*   SpecBuilders  a single-text builder and udpipe_tag_batch on the       *)
(*                 one-element batch of the same text, on the same engine  *)
(*   SpecPool      the thread pool of udpipe_tag_batch for every batch     *)
(*                 size and hardware parallelism                           *)
(***************************************************************************)
EXTENDS Integers, Sequences, FiniteSets, TLC

VARIABLES
    arenas,     \* arena id -> the StringArena object and the blocks it malloc'ed
    handed,     \* SpecArena: history of the pointers allocate has returned
    heap,       \* the arrays std::malloc and std::vector allocated: key -> block
    aborted,    \* the process was aborted by the allocator (invalid free)
    out_doc,    \* SpecDoc: the caller's udpipe_doc_view
    call,       \* SpecDoc: the locals of the running udpipe_*_structured call
    last,       \* SpecDoc: the last boundary operation and what it returned
    sched,      \* SpecBatch: the locals of udpipe_tag_batch on the calling thread
    results,    \* SpecBatch: std::vector<udpipe_doc_view> results
    next_index, \* SpecBatch: std::atomic<size_t> next_index
    success_flag, \* SpecBatch: std::atomic<bool> success_flag
    wk,         \* SpecBatch: worker -> the locals of its lambda
    out,        \* SpecBatch: *out_docs, *out_size and the value returned
    hist        \* SpecBatch: history of claims, failures and slot accesses

memVars == <<arenas, heap, aborted>>
docVars == <<out_doc, call, last>>
batchVars == <<sched, results, next_index, success_flag, wk, out, hist>>
vars == <<arenas, handed, heap, aborted, out_doc, call, last,
          sched, results, next_index, success_flag, wk, out, hist>>

-----------------------------------------------------------------------------
(* Bounds of the model                                                     *)

\* SpecArena: number of allocate calls explored
MaxAllocs == 3
\* SpecDoc: number of builder calls the caller makes
MaxCalls == 1
\* block requests std::malloc may refuse while one sentence is built
MaxBlockFail == 1
\* SpecBatch: the largest batch, and the largest hardware_concurrency()
MaxBatch == 2
MaxThreads == 2
\* SpecBatch: udpipe_free_doc calls the caller makes on one document
MaxFreeCalls == 2
\* SpecPool: the largest hardware_concurrency() and the largest batch size
MaxHw == 9
MaxPoolBatch == 9

-----------------------------------------------------------------------------
(* Strings                                                                 *)

RECURSIVE Rep(_, _)
\* the string s repeated n times
Rep(s, n) == IF n = 0 THEN "" ELSE s \o Rep(s, n - 1)

Str64 == Rep("abcdefgh", 8)
Str4096 == Rep(Str64, 64)
\* 4100 characters: two of them do not fit in one default block
StrHalf == Str4096 \o "wxyz"
\* 8192 characters: with its terminator it is longer than a default block
StrOver == Str4096 \o Str4096

\* std::string::length()
length(s) == Len(s)

\* faulty variant: the larger of the two is always taken to be the second
Max_Second(a, b) == b

\* std::max(a, b)
Max(a, b) == IF a > b THEN a ELSE b

-----------------------------------------------------------------------------
(* StringArena                                                             *)

DEFAULT_BLOCK_SIZE == 8192
\* sizeof(void*)
PointerSize == 8

ArenaIds == {1, 2}

\* a null char*
NullStr == [arena |-> 0, blk |-> 0, off |-> -1]

\* faulty variant: the fallback of allocate is a null pointer
empty_str_Null == NullStr

\* the process-wide static empty string allocate falls back to
empty_str == [arena |-> 0, blk |-> 0, off |-> 0]

\* an arena id that names no arena object yet
NoArena ==
    [state |-> "none", deletes |-> 0, blocks_ |-> <<>>, current_block_ |-> 0,
     current_offset_ |-> 0, block_size_ |-> 0, mem |-> <<>>]

\* StringArena(block_size = DEFAULT_BLOCK_SIZE): no block yet.
\* mem is the sequence of blocks std::malloc returned to this arena, a block
\* being named by its position in mem; current_block_ = 0 is nullptr.
StringArenaNew ==
    [state |-> "live", deletes |-> 0, blocks_ |-> <<>>, current_block_ |-> 0,
     current_offset_ |-> 0, block_size_ |-> DEFAULT_BLOCK_SIZE, mem |-> <<>>]

\* current_offset_ rounded up to the pointer size
AlignUp(offset) ==
    IF offset % PointerSize # 0
    THEN offset + (PointerSize - (offset % PointerSize))
    ELSE offset

\* faulty variant: the cursor advances by the length without the terminator
ArenaWrite_NoTerminator(ar, blk, off, s) ==
    [ar EXCEPT !.mem[blk].writes =
                   Append(@, [off |-> off, n |-> length(s) + 1, str |-> s]),
               !.current_offset_ = off + length(s)]

\* memcpy(ptr, s.c_str(), s.length() + 1) into block blk at offset off
ArenaWrite(ar, blk, off, s) ==
    [ar EXCEPT !.mem[blk].writes =
                   Append(@, [off |-> off, n |-> length(s) + 1, str |-> s]),
               !.current_offset_ = off + length(s) + 1]

\* char* allocate(const std::string& s) on arena a, whose object is ar;
\* mallocOk is what std::malloc answers if a new block is asked for.
\* The result is the arena after the call and the pointer returned.
allocate(a, ar, s, mallocOk) ==
    LET required == length(s) + 1
        off == AlignUp(ar.current_offset_)
        aligned == [ar EXCEPT !.current_offset_ = off]
    IN  IF ar.current_block_ = 0 \/ (off + required) > ar.block_size_
        THEN LET new_block_size == Max(ar.block_size_, required)
                 blk == Len(ar.mem) + 1
             IN  IF ~mallocOk
                 THEN [arena |-> [aligned EXCEPT !.current_block_ = 0],
                       ptr |-> empty_str]
                 ELSE [arena |->
                           ArenaWrite(
                               [aligned EXCEPT
                                   !.mem = Append(@, [size |-> new_block_size,
                                                      frees |-> 0,
                                                      writes |-> <<>>]),
                                   !.blocks_ = Append(@, blk),
                                   !.current_block_ = blk,
                                   !.block_size_ = new_block_size],
                               blk, 0, s),
                       ptr |-> [arena |-> a, blk |-> blk, off |-> 0]]
        ELSE [arena |-> ArenaWrite(aligned, ar.current_block_, off, s),
              ptr |-> [arena |-> a, blk |-> ar.current_block_, off |-> off]]

\* char* allocate_empty()
allocate_empty(a, ar, mallocOk) == allocate(a, ar, "", mallocOk)

RECURSIVE FreeBlocks(_, _)
\* for (char* block : blocks_) std::free(block), from position i on
FreeBlocks(ar, i) ==
    IF i > Len(ar.blocks_) THEN ar
    ELSE FreeBlocks([ar EXCEPT !.mem[ar.blocks_[i]].frees = @ + 1], i + 1)

\* ~StringArena()
StringArenaDelete(ar) ==
    [FreeBlocks(ar, 1) EXCEPT !.state = "deleted", !.deletes = @ + 1]

\* Whether write k of a block is the last one to touch a byte of [off, off+n)
Overlaps(w, off, n) == w.off < off + n /\ off < w.off + w.n

\* The C string read at pointer p: the string whose copy is at p, if no
\* later memcpy touched its bytes and its block has not been freed
ReadString(p) ==
    IF p = NullStr THEN "<null>"
    ELSE IF p = empty_str THEN ""
    ELSE LET b == arenas[p.arena].mem[p.blk]
             at == {k \in 1..Len(b.writes) : b.writes[k].off = p.off}
         IN  IF b.frees > 0 THEN "<dangling>"
             ELSE IF at = {} THEN "<garbage>"
             ELSE LET k == CHOOSE i \in at : \A j \in at : j <= i
                      w == b.writes[k]
                  IN  IF \E j \in (k + 1)..Len(b.writes) :
                              Overlaps(b.writes[j], w.off, w.n)
                      THEN "<garbage>"
                      ELSE w.str

-----------------------------------------------------------------------------
(* The arrays of a document                                                *)

\* A block is named by <<kind, doc, sentence>>: the token array of sentence j
\* of document d is <<"tokens", d, j>>, its sentence array
\* <<"sentences", d, 0>>, the storage of the local std::vector `sentences`
\* <<"vector", d, 0>>, the array of a batch <<"docs", 0, 0>>.
NULL == <<"null", 0, 0>>

\* a block just allocated under key, holding data
Malloc(h, key, data) == (key :> [frees |-> 0, data |-> data]) @@ h

\* std::free(ptr) / operator delete(ptr)
Free(h, ptr) == [h EXCEPT ![ptr].frees = @ + 1]

\* a zeroed udpipe_doc_view
ZeroDoc == [sentences |-> NULL, count |-> 0, arena |-> 0]

RECURSIVE FreeTokenArrays(_, _, _)
\* for (i < doc->count) if (sv.tokens) std::free(sv.tokens), from i on
FreeTokenArrays(h, doc, i) ==
    IF i > doc.count THEN h
    ELSE LET sv == h[doc.sentences].data[i]
         IN  FreeTokenArrays(IF sv.tokens # NULL THEN Free(h, sv.tokens) ELSE h,
                             doc, i + 1)

\* faulty variant: udpipe_free_doc that does not reset the fields of doc
udpipe_free_doc_NoReset(m, doc) ==
    [arenas |-> IF doc.arena # 0
                THEN [m.arenas EXCEPT ![doc.arena] = StringArenaDelete(@)]
                ELSE m.arenas,
     heap |-> IF doc.sentences # NULL
              THEN Free(FreeTokenArrays(m.heap, doc, 1), doc.sentences)
              ELSE m.heap,
     doc |-> doc]

\* void udpipe_free_doc(udpipe_doc_view* doc), doc non-null, on the memory
\* m = [arenas, heap]; the result is the memory and *doc after the call
udpipe_free_doc(m, doc) ==
    [arenas |-> IF doc.arena # 0
                THEN [m.arenas EXCEPT ![doc.arena] = StringArenaDelete(@)]
                ELSE m.arenas,
     heap |-> IF doc.sentences # NULL
              THEN Free(FreeTokenArrays(m.heap, doc, 1), doc.sentences)
              ELSE m.heap,
     doc |-> ZeroDoc]

-----------------------------------------------------------------------------
(* The engine: tokenizer, tagger and parser of the model                   *)

\* a word of the engine's sentence; range says whether get_token_range
\* reports a range
Word(id, form, lemma, range, start, end) ==
    [id |-> id, head |-> -1, form |-> form, lemma |-> lemma, upostag |-> "",
     xpostag |-> "", feats |-> "", deprel |-> "",
     range |-> range, start |-> start, end |-> end]

Root == Word(0, "<root>", "<root>", FALSE, 0, 0)

\* The texts of the model, each as the sentences the tokenizer splits it
\* into: "Dogs run", "Hi. Go on" (with a multiword marker of id -1, a word
\* that already carries a lemma, a tag, a head and a relation, and a word
\* without a range), the empty text, and a text whose first sentence has no
\* word of id > 0.
Texts ==
    << << <<Root, Word(1, "Dogs", "", TRUE, 0, 4), Word(2, "run", "", TRUE, 5, 8)>> >>,
       << <<Root, Word(1, "Hi", "", TRUE, 0, 2)>>,
          <<Root, Word(-1, "Go on", "x", TRUE, 4, 9),
            [Word(1, "Go", "stale", TRUE, 4, 6)
                 EXCEPT !.head = 7, !.upostag = "X", !.deprel = "old"],
            Word(2, "on", "", FALSE, 0, 0)>> >>,
       << >>,
       << <<Root>>, <<Root, Word(1, "Ok", "", TRUE, 1, 3)>> >> >>

TextIds == 1..Len(Texts)
\* the texts batches are made of
BatchTextIds == {1, 2}

\* what the tagger writes into a word
TagWord(w) ==
    [w EXCEPT !.lemma = IF w.form = "Dogs" THEN "dog" ELSE w.form,
              !.upostag = IF w.id = 1 THEN "NOUN" ELSE "VERB",
              !.xpostag = IF w.id = 1 THEN "NN" ELSE "",
              !.feats = IF w.form = "Dogs" THEN "Number=Plur" ELSE ""]

\* what the parser writes into a word
ParseWord(w) ==
    [w EXCEPT !.head = IF w.id = 1 THEN 0 ELSE 1,
              !.deprel = IF w.id = 1 THEN "root" ELSE "dep"]

\* m->tag(s, ...) and m->parse(s, ...) when they succeed
tag(s) == [i \in DOMAIN s |-> TagWord(s[i])]
parse(s) == [i \in DOMAIN s |-> ParseWord(s[i])]

\* What one engine call reports besides its result: it succeeds, fails with
\* an error message, or fails leaving the error string empty
CallOutcomes == {"ok", "error", "silent"}

\* reader->next_sentence(s, error): the next sentence, the next sentence
\* together with an error message, the end of the text, or a failure
NextSentenceOutcomes(text, pos) ==
    (IF pos < Len(Texts[text]) THEN {"sentence", "sentence+error"} ELSE {"end"})
        \cup {"error"}

\* What the engine and the allocator do in one round of a builder's loop:
\* ns, tg and pr are the outcomes of next_sentence, tag and parse, `fails`
\* the number of block requests std::malloc refuses to the arena, arrayOk
\* whether std::malloc returns a token array.  A choice the round never
\* gets to is left at its first value.
RoundOutcomes(text, pos, tagging, do_parse) ==
    {o \in [ns : NextSentenceOutcomes(text, pos), tg : CallOutcomes,
            pr : CallOutcomes, fails : 0..MaxBlockFail, arrayOk : BOOLEAN] :
        LET built == o.ns = "sentence" /\ o.tg = "ok" /\ o.pr = "ok"
        IN  /\ (o.ns # "sentence" \/ ~tagging) => o.tg = "ok"
            /\ (o.ns # "sentence" \/ o.tg # "ok" \/ ~do_parse) => o.pr = "ok"
            /\ ~built => (o.fails = 0 /\ o.arrayOk)}

-----------------------------------------------------------------------------
(* Sentence materializer                                                   *)

\* whether allocate(s) on ar asks std::malloc for a new block
NeedsBlock(ar, s) ==
    ar.current_block_ = 0
        \/ AlignUp(ar.current_offset_) + length(s) + 1 > ar.block_size_

RECURSIVE AllocStrings(_, _, _, _, _)
\* arena->allocate on each string of strs in turn; the first `fails` block
\* requests are refused by std::malloc.  st = [arena, fails, ptrs].
AllocStrings(a, st, strs, i, n) ==
    IF i > n THEN st
    ELSE LET need == NeedsBlock(st.arena, strs[i])
             r == allocate(a, st.arena, strs[i], st.fails = 0)
         IN  AllocStrings(a,
                          [arena |-> r.arena,
                           fails |-> IF need /\ st.fails > 0
                                     THEN st.fails - 1 ELSE st.fails,
                           ptrs |-> Append(st.ptrs, r.ptr)],
                          strs, i + 1, n)

\* the strings of a token, in the order they are allocated
TagStrings(w) == <<w.form, w.lemma, w.upostag, w.xpostag, w.feats, w.deprel>>
\* faulty variant: the tokenizer path copies the word's fields
TokenizeStrings_Copy(w) == TagStrings(w)

\* udpipe_tokenize_structured: the form, then five allocate_empty()
TokenizeStrings(w) == <<w.form, "", "", "", "", "">>

\* udpipe_token t{} filled in udpipe_tag_structured
TagToken(w, ptrs) ==
    [id |-> w.id, head |-> w.head,
     form |-> ptrs[1], lemma |-> ptrs[2], upos |-> ptrs[3],
     xpostag |-> ptrs[4], feats |-> ptrs[5], deprel |-> ptrs[6],
     start |-> IF w.range THEN w.start ELSE 0,
     end |-> IF w.range THEN w.end ELSE 0]

\* udpipe_token t{} filled in udpipe_tokenize_structured
TokenizeToken(w, ptrs) ==
    [id |-> w.id, head |-> -1,
     form |-> ptrs[1], lemma |-> ptrs[2], upos |-> ptrs[3],
     xpostag |-> ptrs[4], feats |-> ptrs[5], deprel |-> ptrs[6],
     start |-> IF w.range THEN w.start ELSE 0,
     end |-> IF w.range THEN w.end ELSE 0]

\* udpipe_token t{} filled in a worker of udpipe_tag_batch: start and end
\* keep the zeroes of t{} when there is no range
BatchToken(w, ptrs) ==
    [id |-> w.id, head |-> w.head,
     form |-> ptrs[1], lemma |-> ptrs[2], upos |-> ptrs[3],
     xpostag |-> ptrs[4], feats |-> ptrs[5], deprel |-> ptrs[6],
     start |-> IF w.range THEN w.start ELSE 0,
     end |-> IF w.range THEN w.end ELSE 0]

RECURSIVE WordLoop_SkipLast(_, _, _, _, _)
\* faulty variant: the loop stops one word early
WordLoop_SkipLast(fn, a, st, words, i) ==
    IF i >= Len(words) THEN st
    ELSE LET w == words[i]
         IN  IF w.id <= 0 THEN WordLoop_SkipLast(fn, a, st, words, i + 1)
             ELSE LET strs == IF fn = "tokenize" THEN TokenizeStrings(w)
                                                 ELSE TagStrings(w)
                      r == AllocStrings(a, [arena |-> st.arena, fails |-> st.fails,
                                            ptrs |-> <<>>], strs, 1, 6)
                      t == CASE fn = "tag" -> TagToken(w, r.ptrs)
                             [] fn = "tokenize" -> TokenizeToken(w, r.ptrs)
                             [] fn = "batch" -> BatchToken(w, r.ptrs)
                  IN  WordLoop_SkipLast(fn, a, [arena |-> r.arena, fails |-> r.fails,
                                       toks |-> Append(st.toks, t)],
                               words, i + 1)

RECURSIVE WordLoop(_, _, _, _, _)
\* for (const auto& w : s.words) { if (w.id <= 0) continue; ...;
\* toks.push_back(t); } from word i on, in the builder fn ("tag", "tokenize"
\* or "batch") with arena a.  st = [arena, fails, toks].
WordLoop(fn, a, st, words, i) ==
    IF i > Len(words) THEN st
    ELSE LET w == words[i]
         IN  IF w.id <= 0 THEN WordLoop(fn, a, st, words, i + 1)
             ELSE LET strs == IF fn = "tokenize" THEN TokenizeStrings(w)
                                                 ELSE TagStrings(w)
                      r == AllocStrings(a, [arena |-> st.arena, fails |-> st.fails,
                                            ptrs |-> <<>>], strs, 1, 6)
                      t == CASE fn = "tag" -> TagToken(w, r.ptrs)
                             [] fn = "tokenize" -> TokenizeToken(w, r.ptrs)
                             [] fn = "batch" -> BatchToken(w, r.ptrs)
                  IN  WordLoop(fn, a, [arena |-> r.arena, fails |-> r.fails,
                                       toks |-> Append(st.toks, t)],
                               words, i + 1)

\* the tokens of one sentence and the arena after building them
Materialize(fn, a, ar, words, fails) ==
    WordLoop(fn, a, [arena |-> ar, fails |-> fails, toks |-> <<>>], words, 1)

-----------------------------------------------------------------------------
(* SpecDoc: udpipe_tag_structured, udpipe_tokenize_structured and          *)
(* udpipe_free_doc, called one after the other by one caller               *)

\* no call is running
IdleCall ==
    [pc |-> "idle", fn |-> "", text |-> 0, do_parse |-> FALSE, d |-> 0,
     pos |-> 0, error |-> "", vec |-> 0]

\* nothing was called yet
NoOp == [op |-> "", ret |-> -1, d |-> 0, text |-> 0, do_parse |-> FALSE,
         pre |-> ZeroDoc]

\* a thread that was not started
IdleWorker ==
    [pc |-> "none", fn |-> "batch", current_index |-> 0,
     current_success |-> TRUE, d |-> 0, text |-> 0, pos |-> 0,
     error |-> "", vec |-> 0]

IdleSched ==
    [pc |-> "idle", batch |-> <<>>, do_parse |-> FALSE, num_threads |-> 0,
     spawned |-> 0, joined |-> 0]

NoOut == [docs |-> NULL, size |-> 0, ret |-> -1, malloc |-> "none"]

\* claims: the fetch_add calls, each with the worker, the index it got, its
\* number among the worker's claims and the flag at that moment; failed: the
\* slots whose text failed; touched: <<worker, slot>> for each slot a worker
\* accessed; early: the scheduler inspected the outcome while a worker was
\* running; freeCalls: the caller's udpipe_free_doc calls per slot
NoHist == [claims |-> {}, failed |-> {}, touched |-> {}, early |-> FALSE,
           freeCalls |-> <<>>, batchFreed |-> FALSE]

DocIds == 1..MaxCalls

InitDoc ==
    /\ arenas = [d \in DocIds |-> NoArena]
    /\ handed = <<>>
    /\ heap = <<>>
    /\ aborted = FALSE
    /\ out_doc = ZeroDoc
    /\ call = IdleCall
    /\ last = NoOp
    /\ sched = IdleSched
    /\ results = <<>>
    /\ next_index = 0
    /\ success_flag = TRUE
    /\ wk = <<>>
    /\ out = NoOut
    /\ hist = NoHist

\* the key of the token array of sentence j of document d, and so on
TokensKey(d, j) == <<"tokens", d, j>>
SentencesKey(d) == <<"sentences", d, 0>>
VectorKey(d) == <<"vector", d, 0>>

\* sentences.data(): null for a vector nothing was pushed to
VectorData(d, size) == IF size > 0 THEN VectorKey(d) ELSE NULL

\* sentences.push_back(view) for the vector of document d holding `size` views
PushBack(h, d, size, view) ==
    IF size = 0 THEN Malloc(h, VectorKey(d), <<view>>)
    ELSE [h EXCEPT ![VectorKey(d)].data = Append(@, view)]

\* ~vector(): releases the storage, if there is any
VectorDelete(h, d, size) == IF size > 0 THEN Free(h, VectorKey(d)) ELSE h

\* the message an engine call leaves in `error`
ErrorOf(outcome, msg) == IF outcome = "error" THEN msg ELSE ""

\* the document the next call builds: the first one not used yet
NewDoc == CHOOSE d \in DocIds : arenas[d].state = "none" /\
                                \A e \in DocIds : arenas[e].state = "none" => d <= e

\* udpipe_tag_structured / udpipe_tokenize_structured up to the first
\* next_sentence: the output is zeroed, the arena created and stored in
\* out_doc, the tokenizer created; a null tokenizer returns 0 at once
StartCall(fn, text, do_parse, readerOk) ==
    /\ call.pc = "idle" /\ ~aborted
    /\ out_doc = ZeroDoc
    /\ \E d \in DocIds : arenas[d].state = "none"
    /\ LET d == NewDoc
       IN  /\ arenas' = [arenas EXCEPT ![d] = StringArenaNew]
           /\ out_doc' = [sentences |-> NULL, count |-> 0, arena |-> d]
           /\ IF readerOk
              THEN /\ call' = [pc |-> "loop", fn |-> fn, text |-> text,
                               do_parse |-> do_parse, d |-> d, pos |-> 0,
                               error |-> "", vec |-> 0]
                   /\ UNCHANGED last
              ELSE /\ call' = IdleCall
                   /\ last' = [op |-> fn, ret |-> 0, d |-> d, text |-> text,
                               do_parse |-> do_parse, pre |-> out_doc]
    /\ UNCHANGED <<handed, heap, aborted, batchVars>>

TagStart ==
    \E text \in TextIds, do_parse \in BOOLEAN, readerOk \in BOOLEAN :
        StartCall("tag", text, do_parse, readerOk)

TokenizeStart ==
    \E text \in TextIds, readerOk \in BOOLEAN :
        StartCall("tokenize", text, FALSE, readerOk)

\* the loop is left with this error string
LeaveLoop(c, ar, h, error) ==
    [call |-> [c EXCEPT !.pc = "after", !.error = error], arena |-> ar, heap |-> h]

\* lines 147-173 and 242-267: the tokens of sentence s are built, their C
\* array allocated (arrayOk: std::malloc returns non-null) and filled, the
\* view pushed
PushSentence(c, ar, h, s, fails, arrayOk) ==
    LET m == Materialize(c.fn, c.d, ar, s, fails)
        view == [tokens |-> TokensKey(c.d, c.pos + 1), count |-> Len(m.toks)]
    IN  IF ~arrayOk
        THEN LeaveLoop(c, m.arena, h, "alloc failure")
        ELSE [call |-> [c EXCEPT !.pos = @ + 1, !.vec = @ + 1],
              arena |-> m.arena,
              heap |-> PushBack(Malloc(h, view.tokens, m.toks), c.d, c.vec, view)]

\* one round of the while loop of udpipe_tag_structured: next_sentence, tag,
\* parse if asked, the tokens; ns, tg and pr are what the engine calls do
TagIteration(c, ar, h, ns, tg, pr, fails, arrayOk) ==
    LET raw == Texts[c.text][c.pos + 1]
    IN  IF ns = "end" THEN LeaveLoop(c, ar, h, "")
        ELSE IF ns \in {"error", "sentence+error"}
        THEN LeaveLoop(c, ar, h, "tokenizer error")
        ELSE IF tg # "ok" THEN LeaveLoop(c, ar, h, ErrorOf(tg, "tagger error"))
        ELSE IF c.do_parse /\ pr # "ok"
        THEN LeaveLoop(c, ar, h, ErrorOf(pr, "parser error"))
        ELSE PushSentence(c, ar, h,
                          IF c.do_parse THEN parse(tag(raw)) ELSE tag(raw),
                          fails, arrayOk)

\* one round of the while loop of udpipe_tokenize_structured
TokenizeIteration(c, ar, h, ns, fails, arrayOk) ==
    LET raw == Texts[c.text][c.pos + 1]
    IN  IF ns = "end" THEN LeaveLoop(c, ar, h, "")
        ELSE IF ns \in {"error", "sentence+error"}
        THEN LeaveLoop(c, ar, h, "tokenizer error")
        ELSE PushSentence(c, ar, h, raw, fails, arrayOk)

TagSentence ==
    /\ call.pc = "loop" /\ call.fn = "tag" /\ ~aborted
    /\ \E o \in RoundOutcomes(call.text, call.pos, TRUE, call.do_parse) :
          LET r == TagIteration(call, arenas[call.d], heap, o.ns, o.tg, o.pr,
                                o.fails, o.arrayOk)
          IN  /\ call' = r.call
              /\ arenas' = [arenas EXCEPT ![call.d] = r.arena]
              /\ heap' = r.heap
    /\ UNCHANGED <<handed, aborted, out_doc, last, batchVars>>

TokenizeSentence ==
    /\ call.pc = "loop" /\ call.fn = "tokenize" /\ ~aborted
    /\ \E o \in RoundOutcomes(call.text, call.pos, FALSE, FALSE) :
          LET r == TokenizeIteration(call, arenas[call.d], heap, o.ns,
                                     o.fails, o.arrayOk)
          IN  /\ call' = r.call
              /\ arenas' = [arenas EXCEPT ![call.d] = r.arena]
              /\ heap' = r.heap
    /\ UNCHANGED <<handed, aborted, out_doc, last, batchVars>>

\* if (!error.empty()) { udpipe_doc_view tmp{sentences.data(),
\* sentences.size()}; udpipe_free_doc(&tmp); return 0; } and the destructor
\* of `sentences`.  tmp.arena is null.  With a sentence pushed, the vector's
\* own storage is passed to std::free and then released again by the
\* destructor.
FailureCleanup(m, d, size) ==
    LET tmp == [sentences |-> VectorData(d, size), count |-> size, arena |-> 0]
        f == udpipe_free_doc(m, tmp)
    IN  [arenas |-> f.arenas, heap |-> VectorDelete(f.heap, d, size)]

\* the end of a builder after its loop: ret, the memory and *out_doc.
\* sentOk: std::malloc of the sentence array returns non-null.
FinishCall(c, m, doc, sentOk) ==
    IF c.error # ""
    THEN LET f == FailureCleanup(m, c.d, c.vec)
         IN  [ret |-> 0, arenas |-> f.arenas, heap |-> f.heap, doc |-> doc]
    ELSE IF ~sentOk
    THEN [ret |-> 0, arenas |-> m.arenas,
          heap |-> VectorDelete(m.heap, c.d, c.vec),
          doc |-> [doc EXCEPT !.count = 0]]
    ELSE LET data == IF c.vec > 0 THEN m.heap[VectorKey(c.d)].data ELSE <<>>
         IN  [ret |-> 1, arenas |-> m.arenas,
              heap |-> VectorDelete(Malloc(m.heap, SentencesKey(c.d), data),
                                    c.d, c.vec),
              doc |-> [doc EXCEPT !.count = c.vec,
                                  !.sentences = SentencesKey(c.d)]]

\* some block has been passed to a release function more than once
HeapCorrupted(h) == \E k \in DOMAIN h : h[k].frees > 1

\* the call returns: lines 176-190 and 270-280.  A double free either
\* aborts the process or goes unnoticed.
Return ==
    /\ call.pc = "after" /\ ~aborted
    /\ \E sentOk \in BOOLEAN :
          LET r == FinishCall(call, [arenas |-> arenas, heap |-> heap],
                              out_doc, sentOk)
          IN  /\ arenas' = r.arenas
              /\ heap' = r.heap
              /\ \E crash \in {FALSE, HeapCorrupted(r.heap)} :
                    IF crash
                    THEN /\ aborted' = TRUE
                         /\ UNCHANGED <<out_doc, call, last>>
                    ELSE /\ out_doc' = r.doc
                         /\ call' = IdleCall
                         /\ last' = [op |-> call.fn, ret |-> r.ret,
                                     d |-> call.d, text |-> call.text,
                                     do_parse |-> call.do_parse,
                                     pre |-> ZeroDoc]
                         /\ UNCHANGED aborted
    /\ UNCHANGED <<handed, batchVars>>

\* the caller releases its document: udpipe_free_doc(&out_doc)
FreeDoc ==
    /\ call.pc = "idle" /\ ~aborted
    /\ LET f == udpipe_free_doc([arenas |-> arenas, heap |-> heap], out_doc)
       IN  /\ arenas' = f.arenas
           /\ heap' = f.heap
           /\ out_doc' = f.doc
           /\ last' = [op |-> "free_doc", ret |-> -1, d |-> out_doc.arena,
                       text |-> 0, do_parse |-> FALSE, pre |-> out_doc]
    /\ UNCHANGED <<handed, aborted, call, batchVars>>

NextDoc ==
    \/ TagStart
    \/ TokenizeStart
    \/ TagSentence
    \/ TokenizeSentence
    \/ Return
    \/ FreeDoc

SpecDoc == InitDoc /\ [][NextDoc]_vars

-----------------------------------------------------------------------------
(* SpecBatch: one udpipe_tag_batch call, its worker threads, and the       *)
(* caller's release calls on the batch it got                              *)

Workers == 1..MaxThreads
Slots == 1..MaxBatch

\* the batches of the model: up to MaxBatch texts
Batches == UNION {[1..n -> BatchTextIds] : n \in 0..MaxBatch}

DocsKey == <<"docs", 0, 0>>

InitBatch ==
    /\ arenas = [d \in Slots |-> NoArena]
    /\ handed = <<>>
    /\ heap = <<>>
    /\ aborted = FALSE
    /\ out_doc = ZeroDoc
    /\ call = IdleCall
    /\ last = NoOp
    /\ sched = IdleSched
    /\ results = <<>>
    /\ next_index = 0
    /\ success_flag = TRUE
    /\ wk = [w \in Workers |-> IdleWorker]
    /\ out = NoOut
    /\ hist = NoHist

\* faulty variant: the thread count is not capped by the batch size
NumThreads_NoCap(hw, batch_size) == IF hw = 0 THEN 1 ELSE hw

\* lines 295-297: the number of threads for hardware_concurrency() = hw
NumThreads(hw, batch_size) ==
    LET n == IF hw = 0 THEN 1 ELSE hw
    IN  IF n > batch_size THEN batch_size ELSE n

\* udpipe_tag_batch up to the thread loop (lines 285-300): the outputs are
\* cleared, results holds batch_size zeroed documents
BatchCall ==
    /\ sched.pc = "idle"
    /\ \E batch \in Batches, do_parse \in BOOLEAN, hw \in 0..MaxThreads :
          /\ sched' = [pc |-> "running", batch |-> batch, do_parse |-> do_parse,
                       num_threads |-> NumThreads(hw, Len(batch)),
                       spawned |-> 0, joined |-> 0]
          /\ results' = [i \in 1..Len(batch) |-> ZeroDoc]
    /\ out' = [NoOut EXCEPT !.docs = NULL, !.size = 0]
    /\ next_index' = 0
    /\ success_flag' = TRUE
    /\ hist' = NoHist
    /\ UNCHANGED <<memVars, handed, docVars, wk>>

\* threads.emplace_back(...): the next worker starts at its loop test
Spawn ==
    /\ sched.pc = "running" /\ ~aborted
    /\ sched.spawned < sched.num_threads
    /\ sched' = [sched EXCEPT !.spawned = @ + 1]
    /\ wk' = [wk EXCEPT ![sched.spawned + 1].pc = "check"]
    /\ UNCHANGED <<memVars, handed, docVars, results, next_index,
                   success_flag, out, hist>>

\* faulty variant: join returns without waiting for the thread
CanJoin_NoWait(w) == TRUE

\* t.join() returns once thread w has left its lambda
CanJoin(w) == wk[w].pc = "done"

\* for (auto& t : threads) t.join();
Join ==
    /\ sched.pc = "running" /\ ~aborted
    /\ sched.spawned = sched.num_threads
    /\ sched.joined < sched.num_threads
    /\ CanJoin(sched.joined + 1)
    /\ sched' = [sched EXCEPT !.joined = @ + 1]
    /\ UNCHANGED <<memVars, handed, docVars, results, next_index,
                   success_flag, wk, out, hist>>

\* faulty variant: the loop test ignores the flag
LoopTest_Always(flag) == TRUE

\* while (success_flag)
LoopTest(flag) == flag

\* a worker evaluates its loop condition
WCheck(w) ==
    /\ wk[w].pc = "check" /\ ~aborted
    /\ wk' = [wk EXCEPT ![w].pc = IF LoopTest(success_flag) THEN "claim"
                                                             ELSE "done"]
    /\ UNCHANGED <<memVars, handed, docVars, sched, results, next_index,
                   success_flag, out, hist>>

\* faulty variant: the increment is lost
fetch_add_Lost(n) == n

\* next_index.fetch_add(1): the value stored
fetch_add(n) == n + 1

\* faulty variant: every worker reads the first text
TextAt_First(batch, current_index) == batch[1]

\* utf8_texts[current_index]
TextAt(batch, current_index) == batch[current_index + 1]

\* the number of fetch_add calls worker w has made
ClaimsOf(w) == Cardinality({c \in hist.claims : c.w = w})

\* lines 305-316: the worker claims an index; out of bounds it leaves,
\* otherwise it zeroes its slot and stores a new arena in it
WClaim(w) ==
    /\ wk[w].pc = "claim" /\ ~aborted
    /\ next_index' = fetch_add(next_index)
    /\ LET current_index == next_index
           d == current_index + 1
       IN  /\ hist' = [hist EXCEPT
                          !.claims = @ \cup {[w |-> w, index |-> current_index,
                                               n |-> ClaimsOf(w) + 1,
                                               flag |-> success_flag]},
                          !.touched = IF current_index >= Len(sched.batch) THEN @
                                      ELSE @ \cup {<<w, d>>}]
           /\ IF current_index >= Len(sched.batch)
              THEN /\ wk' = [wk EXCEPT ![w].pc = "done"]
                   /\ UNCHANGED <<arenas, results>>
              ELSE /\ wk' = [wk EXCEPT ![w] =
                                [pc |-> "reader", fn |-> "batch",
                                 current_index |-> current_index,
                                 current_success |-> TRUE, d |-> d,
                                 text |-> TextAt(sched.batch, current_index),
                                 pos |-> 0, error |-> "", vec |-> 0]]
                   /\ arenas' = [arenas EXCEPT ![d] = StringArenaNew]
                   /\ results' = [results EXCEPT ![d] =
                                     [sentences |-> NULL, count |-> 0, arena |-> d]]
    /\ UNCHANGED <<heap, aborted, handed, docVars, sched, success_flag, out>>

\* lines 318-324: a null tokenizer clears the flag and the worker goes back
\* to its loop test
WReader(w) ==
    /\ wk[w].pc = "reader" /\ ~aborted
    /\ \E readerOk \in BOOLEAN :
          IF readerOk
          THEN /\ wk' = [wk EXCEPT ![w].pc = "loop"]
               /\ UNCHANGED <<success_flag, hist>>
          ELSE /\ wk' = [wk EXCEPT ![w].pc = "check"]
               /\ success_flag' = FALSE
               /\ hist' = [hist EXCEPT !.failed = @ \cup {wk[w].d}]
    /\ UNCHANGED <<memVars, handed, docVars, sched, results, next_index, out>>

\* break with current_success = false
BatchBreak(c, ar, h, error) ==
    [call |-> [c EXCEPT !.pc = "after", !.error = error,
                        !.current_success = FALSE],
     arena |-> ar, heap |-> h]

\* one round of the while loop of a worker (lines 329-360)
BatchIteration(c, ar, h, do_parse, ns, tg, pr, fails, arrayOk) ==
    LET raw == Texts[c.text][c.pos + 1]
    IN  IF ns = "end" THEN LeaveLoop(c, ar, h, "")
        ELSE IF ns = "error" THEN LeaveLoop(c, ar, h, "tokenizer error")
        ELSE IF ns = "sentence+error" THEN BatchBreak(c, ar, h, "tokenizer error")
        ELSE IF tg # "ok" THEN BatchBreak(c, ar, h, ErrorOf(tg, "tagger error"))
        ELSE IF do_parse /\ pr # "ok"
        THEN BatchBreak(c, ar, h, ErrorOf(pr, "parser error"))
        ELSE LET r == PushSentence(c, ar, h,
                                   IF do_parse THEN parse(tag(raw)) ELSE tag(raw),
                                   fails, arrayOk)
             IN  IF arrayOk THEN r
                 ELSE [r EXCEPT !.call.current_success = FALSE]

WSentence(w) ==
    /\ wk[w].pc = "loop" /\ ~aborted
    /\ \E o \in RoundOutcomes(wk[w].text, wk[w].pos, TRUE, sched.do_parse) :
          LET r == BatchIteration(wk[w], arenas[wk[w].d], heap, sched.do_parse,
                                  o.ns, o.tg, o.pr, o.fails, o.arrayOk)
          IN  /\ wk' = [wk EXCEPT ![w] = r.call]
              /\ arenas' = [arenas EXCEPT ![wk[w].d] = r.arena]
              /\ heap' = r.heap
    /\ UNCHANGED <<aborted, handed, docVars, sched, results, next_index,
                   success_flag, out, hist>>

\* faulty variant: a failed text does not clear the flag
FlagAfter_Kept(flag, ok) == flag

\* success_flag = false on the failure paths of lines 364-379
FlagAfter(flag, ok) == IF ok THEN flag ELSE FALSE

\* lines 362-380 for the worker with locals c: the memory, the slot and
\* whether the text succeeded.  sentOk: std::malloc of the sentence array
\* returns non-null.
WorkerFinish(c, m, doc, sentOk) ==
    LET current_success == IF c.error # "" THEN FALSE ELSE c.current_success
    IN  IF ~current_success
        THEN LET f == FailureCleanup(m, c.d, c.vec)
             IN  [ok |-> FALSE, arenas |-> f.arenas, heap |-> f.heap, doc |-> doc]
        ELSE IF ~sentOk
        THEN LET f == FailureCleanup(m, c.d, c.vec)
             IN  [ok |-> FALSE, arenas |-> f.arenas, heap |-> f.heap,
                  doc |-> [doc EXCEPT !.count = 0]]
        ELSE LET data == IF c.vec > 0 THEN m.heap[VectorKey(c.d)].data ELSE <<>>
             IN  [ok |-> TRUE, arenas |-> m.arenas,
                  heap |-> VectorDelete(Malloc(m.heap, SentencesKey(c.d), data),
                                        c.d, c.vec),
                  doc |-> [doc EXCEPT !.count = c.vec,
                                      !.sentences = SentencesKey(c.d)]]

\* the worker ends its text: it fills its slot, or clears the flag and
\* releases what it built; then it goes back to its loop test
WFinish(w) ==
    /\ wk[w].pc = "after" /\ ~aborted
    /\ \E sentOk \in BOOLEAN :
          LET r == WorkerFinish(wk[w], [arenas |-> arenas, heap |-> heap],
                                results[wk[w].d], sentOk)
          IN  /\ arenas' = r.arenas
              /\ heap' = r.heap
              /\ results' = [results EXCEPT ![wk[w].d] = r.doc]
              /\ success_flag' = FlagAfter(success_flag, r.ok)
              /\ hist' = [hist EXCEPT
                             !.failed = IF r.ok THEN @ ELSE @ \cup {wk[w].d},
                             !.touched = @ \cup {<<w, wk[w].d>>}]
              /\ \E crash \in {FALSE, HeapCorrupted(r.heap)} :
                    /\ aborted' = crash
                    /\ wk' = [wk EXCEPT ![w].pc = IF crash THEN "after"
                                                           ELSE "check"]
    /\ UNCHANGED <<handed, docVars, sched, next_index, out>>

RECURSIVE FreeDocs(_, _, _)
\* for (i < n) udpipe_free_doc(&docs[i]), from i on; m = [arenas, heap, docs]
FreeDocs(m, i, n) ==
    IF i > n THEN m
    ELSE LET f == udpipe_free_doc([arenas |-> m.arenas, heap |-> m.heap],
                                  m.docs[i])
         IN  FreeDocs([arenas |-> f.arenas, heap |-> f.heap,
                       docs |-> [m.docs EXCEPT ![i] = f.doc]], i + 1, n)

\* faulty variant: the teardown loop starts one slot late
TeardownResults_SkipFirst(m) == FreeDocs(m, 2, Len(m.docs))

\* for (i < results.size()) udpipe_free_doc(&results[i]);
TeardownResults(m) == FreeDocs(m, 1, Len(m.docs))

\* lines 389-407 after the joins: ret, the memory, results and the outputs.
\* docsOk: std::malloc of the output array returns non-null.
BatchFinish(m, flag, docsOk) ==
    IF ~flag
    THEN LET f == TeardownResults(m)
         IN  [arenas |-> f.arenas, heap |-> f.heap, results |-> f.docs,
              out |-> [docs |-> NULL, size |-> 0, ret |-> 0, malloc |-> "none"]]
    ELSE IF ~docsOk
    THEN LET f == TeardownResults(m)
         IN  [arenas |-> f.arenas, heap |-> f.heap, results |-> f.docs,
              out |-> [docs |-> NULL, size |-> 0, ret |-> 0, malloc |-> "null"]]
    ELSE [arenas |-> m.arenas, heap |-> Malloc(m.heap, DocsKey, m.docs),
          results |-> m.docs,
          out |-> [docs |-> DocsKey, size |-> Len(m.docs), ret |-> 1,
                   malloc |-> "ok"]]

\* the scheduler, all threads joined, inspects the flag and returns
Finish ==
    /\ sched.pc = "running" /\ ~aborted
    /\ sched.spawned = sched.num_threads
    /\ sched.joined = sched.num_threads
    /\ \E docsOk \in BOOLEAN :
          LET r == BatchFinish([arenas |-> arenas, heap |-> heap,
                                docs |-> results], success_flag, docsOk)
          IN  /\ arenas' = r.arenas
              /\ heap' = r.heap
              /\ results' = r.results
              /\ out' = r.out
    /\ sched' = [sched EXCEPT !.pc = "returned"]
    /\ hist' = [hist EXCEPT
                   !.early = \E w \in 1..sched.spawned : wk[w].pc # "done",
                   !.freeCalls = [i \in 1..Len(results) |-> 0]]
    /\ UNCHANGED <<aborted, handed, docVars, next_index, success_flag, wk>>

\* the caller releases one document of the batch: udpipe_free_doc(&docs[i])
CallerFreeDoc(i) ==
    /\ sched.pc = "returned" /\ out.ret = 1 /\ ~hist.batchFreed
    /\ i \in 1..out.size
    /\ hist.freeCalls[i] < MaxFreeCalls
    /\ LET f == udpipe_free_doc([arenas |-> arenas, heap |-> heap],
                                heap[out.docs].data[i])
       IN  /\ arenas' = f.arenas
           /\ heap' = [f.heap EXCEPT ![out.docs].data[i] = f.doc]
    /\ hist' = [hist EXCEPT !.freeCalls[i] = @ + 1]
    /\ UNCHANGED <<aborted, handed, docVars, sched, results, next_index,
                   success_flag, wk, out>>

\* void udpipe_free_batch(docs, batch_size), docs non-null
udpipe_free_batch(m, docs, batch_size) ==
    LET f == FreeDocs([arenas |-> m.arenas, heap |-> m.heap,
                       docs |-> m.heap[docs].data], 1, batch_size)
    IN  [arenas |-> f.arenas,
         heap |-> Free([f.heap EXCEPT ![docs].data = f.docs], docs)]

\* the caller releases the batch: udpipe_free_batch(out_docs, out_size)
CallerFreeBatch ==
    /\ sched.pc = "returned" /\ out.ret = 1 /\ ~hist.batchFreed
    /\ LET f == udpipe_free_batch([arenas |-> arenas, heap |-> heap],
                                  out.docs, out.size)
       IN  /\ arenas' = f.arenas
           /\ heap' = f.heap
    /\ hist' = [hist EXCEPT !.batchFreed = TRUE]
    /\ UNCHANGED <<aborted, handed, docVars, sched, results, next_index,
                   success_flag, wk, out>>

NextBatch ==
    \/ BatchCall
    \/ Spawn
    \/ Join
    \/ Finish
    \/ \E w \in Workers : WCheck(w)
    \/ \E w \in Workers : WClaim(w)
    \/ \E w \in Workers : WReader(w)
    \/ \E w \in Workers : WSentence(w)
    \/ \E w \in Workers : WFinish(w)
    \/ \E i \in Slots : CallerFreeDoc(i)
    \/ CallerFreeBatch

SpecBatch == InitBatch /\ [][NextBatch]_vars

\* the steps of worker w
WorkerStep(w) ==
    WCheck(w) \/ WClaim(w) \/ WReader(w) \/ WSentence(w) \/ WFinish(w)

\* the steps of the thread that calls udpipe_tag_batch
SchedulerStep == BatchCall \/ Spawn \/ Join \/ Finish

\* SpecBatch with every thread scheduled fairly and every engine call
\* returning: a thread that can take a step eventually takes one
SpecBatchFair ==
    /\ SpecBatch
    /\ WF_vars(SchedulerStep)
    /\ \A w \in Workers : WF_vars(WorkerStep(w))

-----------------------------------------------------------------------------
(* SpecBuilders: one caller runs a single-text builder and                 *)
(* udpipe_tag_batch on the one-element batch of the same text, against the *)
(* same engine: new_tokenizer, next_sentence, tag and parse answer both    *)
(* calls alike.  The batch has one worker (num_threads = 1), which builds  *)
(* document 1; the single-text call builds document 2.                     *)

BatchDoc == 1
SingleDoc == 2
BuilderDocs == {BatchDoc, SingleDoc}

\* the argument the caller passes as a null pointer, if any: handle and
\* text (utf8_text, utf8_texts) belong to both calls, out_doc to the
\* single-text call, out_docs and out_size to the batch call
NullArgs == {"none", "handle", "text", "out_doc", "out_docs", "out_size"}

\* what the caller's output structures hold before the calls
StaleDoc == [sentences |-> NULL, count |-> 7, arena |-> 0]
StaleOut == [docs |-> NULL, size |-> 7, ret |-> -1, malloc |-> "none"]

InitBuilders ==
    /\ arenas = [d \in BuilderDocs |-> NoArena]
    /\ handed = <<>>
    /\ heap = <<>>
    /\ aborted = FALSE
    /\ \E stale \in BOOLEAN :
          /\ out_doc = (IF stale THEN StaleDoc ELSE ZeroDoc)
          /\ out = (IF stale THEN StaleOut ELSE NoOut)
    /\ call = IdleCall
    /\ last = NoOp
    /\ sched = IdleSched
    /\ results = <<>>
    /\ next_index = 0
    /\ success_flag = TRUE
    /\ wk = [w \in Workers |-> IdleWorker]
    /\ hist = NoHist

\* faulty variant: the text pointer is not tested
SingleArgsOk_NoTextTest(nullArg) == nullArg \notin {"handle", "out_doc"}

\* if (!handle || !utf8_text || !out_doc) return 0;  (lines 120 and 220)
SingleArgsOk(nullArg) == nullArg \notin {"handle", "text", "out_doc"}

\* if (!handle || !utf8_texts || !out_docs || !out_size) return 0;  (line 285)
BatchArgsOk(nullArg) == nullArg \notin {"handle", "text", "out_docs", "out_size"}

\* The caller makes both calls on the same text.  A call with a null
\* argument returns 0 at once.  Otherwise the single-text call zeroes
\* out_doc and stores a new arena in it (lines 121-126, 221-226), and the
\* batch call clears its outputs and sets up results and the thread count
\* (lines 286-300).  sched also records the null argument and the outputs
\* of the batch call as they were before.
BuildersStart ==
    /\ call.pc = "idle" /\ last = NoOp /\ sched.pc = "idle" /\ ~aborted
    /\ \E fn \in {"tag", "tokenize"}, text \in TextIds, do_parse \in BOOLEAN,
          nullArg \in NullArgs, hw \in 0..MaxThreads :
          /\ IF SingleArgsOk(nullArg)
             THEN /\ arenas' = [arenas EXCEPT ![SingleDoc] = StringArenaNew]
                  /\ out_doc' = [sentences |-> NULL, count |-> 0,
                                 arena |-> SingleDoc]
                  /\ call' = [pc |-> "reader", fn |-> fn, text |-> text,
                              do_parse |-> (fn = "tag" /\ do_parse),
                              d |-> SingleDoc, pos |-> 0, error |-> "",
                              vec |-> 0]
                  /\ last' = [NoOp EXCEPT !.op = "running", !.pre = out_doc]
             ELSE /\ last' = [op |-> fn, ret |-> 0, d |-> 0, text |-> text,
                              do_parse |-> (fn = "tag" /\ do_parse),
                              pre |-> out_doc]
                  /\ UNCHANGED <<arenas, out_doc, call>>
          /\ IF BatchArgsOk(nullArg)
             THEN /\ sched' = [pc |-> "running", batch |-> <<text>>,
                               do_parse |-> do_parse,
                               num_threads |-> NumThreads(hw, 1),
                               spawned |-> 0, joined |-> 0,
                               nullArg |-> nullArg, pre |-> out]
                  /\ results' = <<ZeroDoc>>
                  /\ out' = NoOut
             ELSE /\ sched' = [pc |-> "returned", batch |-> <<text>>,
                               do_parse |-> do_parse, num_threads |-> 0,
                               spawned |-> 0, joined |-> 0,
                               nullArg |-> nullArg, pre |-> out]
                  /\ out' = [out EXCEPT !.ret = 0]
                  /\ UNCHANGED results
    /\ next_index' = 0
    /\ success_flag' = TRUE
    /\ hist' = NoHist
    /\ UNCHANGED <<handed, heap, aborted, wk>>

\* m->new_tokenizer(...) answers both calls alike (lines 131-132, 231-232,
\* 318-322): with a null tokenizer the single-text call returns 0, the
\* worker clears the flag and goes back to its loop test
BuildersReader ==
    /\ ~aborted
    /\ call.pc = "reader" \/ wk[1].pc = "reader"
    /\ ~(sched.pc = "running" /\ next_index = 0)
    /\ \E readerOk \in BOOLEAN :
          /\ IF call.pc # "reader" THEN UNCHANGED <<call, last>>
             ELSE IF readerOk
             THEN call' = [call EXCEPT !.pc = "loop"] /\ UNCHANGED last
             ELSE /\ call' = IdleCall
                  /\ last' = [op |-> call.fn, ret |-> 0, d |-> call.d,
                              text |-> call.text, do_parse |-> call.do_parse,
                              pre |-> last.pre]
          /\ IF wk[1].pc # "reader" THEN UNCHANGED <<wk, success_flag, hist>>
             ELSE IF readerOk
             THEN wk' = [wk EXCEPT ![1].pc = "loop"]
                  /\ UNCHANGED <<success_flag, hist>>
             ELSE /\ wk' = [wk EXCEPT ![1].pc = "check"]
                  /\ success_flag' = FALSE
                  /\ hist' = [hist EXCEPT !.failed = @ \cup {wk[1].d}]
    /\ UNCHANGED <<memVars, handed, out_doc, sched, results, next_index, out>>

\* one round of the loops of udpipe_tag_structured (lines 139-174) and of
\* the worker (lines 329-360) on the same sentence, with the same answers
\* of next_sentence, tag, parse and std::malloc; the two loops are entered
\* together and left together.  When only one of the two calls is running
\* it is a round of that call alone.
BuildersRound ==
    /\ ~aborted
    /\ (call.pc = "loop" /\ call.fn = "tag") \/ wk[1].pc = "loop"
    /\ LET single == call.pc = "loop" /\ call.fn = "tag"
           batch == wk[1].pc = "loop"
           pos == IF single THEN call.pos ELSE wk[1].pos
       IN  \E o \in RoundOutcomes(sched.batch[1], pos, TRUE, sched.do_parse) :
             LET r1 == IF single
                       THEN TagIteration(call, arenas[SingleDoc], heap, o.ns,
                                         o.tg, o.pr, o.fails, o.arrayOk)
                       ELSE [call |-> call, arena |-> arenas[SingleDoc],
                             heap |-> heap]
                 r2 == IF batch
                       THEN BatchIteration(wk[1], arenas[BatchDoc], r1.heap,
                                           sched.do_parse, o.ns, o.tg, o.pr,
                                           o.fails, o.arrayOk)
                       ELSE [call |-> wk[1], arena |-> arenas[BatchDoc],
                             heap |-> r1.heap]
             IN  /\ call' = r1.call
                 /\ wk' = [wk EXCEPT ![1] = r2.call]
                 /\ arenas' = [arenas EXCEPT ![SingleDoc] = r1.arena,
                                             ![BatchDoc] = r2.arena]
                 /\ heap' = r2.heap
    /\ UNCHANGED <<aborted, handed, out_doc, last, sched, results, next_index,
                   success_flag, out, hist>>

NextBuilders ==
    \/ BuildersStart
    \/ BuildersReader
    \/ BuildersRound
    \/ TokenizeSentence
    \/ Return
    \/ Spawn
    \/ Join
    \/ Finish
    \/ \E w \in Workers : WCheck(w)
    \/ \E w \in Workers : WClaim(w)
    \/ \E w \in Workers : WFinish(w)
    \/ CallerFreeBatch

SpecBuilders == InitBuilders /\ [][NextBuilders]_vars

-----------------------------------------------------------------------------
(* SpecPool: the thread pool of udpipe_tag_batch, for every batch size and *)
(* every hardware parallelism up to the bounds: the call up to the end of  *)
(* the loop that starts the threads.  The threads themselves do not run.   *)

InitPool ==
    /\ arenas = <<>>
    /\ handed = <<>>
    /\ heap = <<>>
    /\ aborted = FALSE
    /\ out_doc = ZeroDoc
    /\ call = IdleCall
    /\ last = NoOp
    /\ sched = IdleSched
    /\ results = <<>>
    /\ next_index = 0
    /\ success_flag = TRUE
    /\ wk = [w \in 1..MaxHw |-> IdleWorker]
    /\ out = NoOut
    /\ hist = NoHist

\* udpipe_tag_batch up to the thread loop (lines 285-300) on a batch of
\* batch_size texts when hardware_concurrency() returns hw; sched records hw
PoolCall ==
    /\ sched.pc = "idle"
    /\ \E batch_size \in 0..MaxPoolBatch, hw \in 0..MaxHw :
          /\ sched' = [pc |-> "running", batch |-> [i \in 1..batch_size |-> 1],
                       do_parse |-> FALSE,
                       num_threads |-> NumThreads(hw, batch_size),
                       spawned |-> 0, joined |-> 0, hw |-> hw]
          /\ results' = [i \in 1..batch_size |-> ZeroDoc]
    /\ out' = NoOut
    /\ next_index' = 0
    /\ success_flag' = TRUE
    /\ hist' = NoHist
    /\ UNCHANGED <<memVars, handed, docVars, wk>>

NextPool == PoolCall \/ Spawn

SpecPool == InitPool /\ [][NextPool]_vars

-----------------------------------------------------------------------------
(* SpecArena: allocate calls on two arenas                                 *)

ArenaStrings == {"", "Dogs", StrHalf, StrOver}

InitArena ==
    /\ arenas = [a \in ArenaIds |-> StringArenaNew]
    /\ handed = <<>>
    /\ heap = <<>>
    /\ aborted = FALSE
    /\ out_doc = ZeroDoc
    /\ call = IdleCall
    /\ last = NoOp
    /\ sched = IdleSched
    /\ results = <<>>
    /\ next_index = 0
    /\ success_flag = TRUE
    /\ wk = <<>>
    /\ out = NoOut
    /\ hist = NoHist

\* one allocate call on arena a
ArenaAllocate(a) ==
    /\ arenas[a].state = "live"
    /\ Len(handed) < MaxAllocs
    /\ \E s \in ArenaStrings, mallocOk \in BOOLEAN :
          LET r == allocate(a, arenas[a], s, mallocOk)
          IN  /\ arenas' = [arenas EXCEPT ![a] = r.arena]
              /\ handed' = Append(handed, [arena |-> a, ptr |-> r.ptr, str |-> s])
    /\ UNCHANGED <<heap, aborted, docVars, batchVars>>

\* the arena is destroyed
ArenaDestroy(a) ==
    /\ arenas[a].state = "live"
    /\ arenas' = [arenas EXCEPT ![a] = StringArenaDelete(arenas[a])]
    /\ UNCHANGED <<handed, heap, aborted, docVars, batchVars>>

NextArena == \E a \in ArenaIds : ArenaAllocate(a) \/ ArenaDestroy(a)

SpecArena == InitArena /\ [][NextArena]_vars

-----------------------------------------------------------------------------
(* Arena stability (C9)                                                    *)

Range(f) == {f[i] : i \in DOMAIN f}

\* the pointers handed out by arenas that have not been destroyed
LiveHanded == {i \in 1..Len(handed) : arenas[handed[i].arena].state = "live"}

\* the region of handed[i] lies inside one block of the arena it came from
InOneBlock(i) ==
    LET h == handed[i]
    IN  /\ h.ptr.arena = h.arena
        /\ h.ptr.blk \in 1..Len(arenas[h.arena].mem)
        /\ h.ptr.off >= 0
        /\ h.ptr.off + length(h.str) + 1 <= arenas[h.arena].mem[h.ptr.blk].size

\* the regions of handed[i] and handed[j] share a byte
RegionsOverlap(i, j) ==
    /\ handed[i].ptr.arena = handed[j].ptr.arena
    /\ handed[i].ptr.blk = handed[j].ptr.blk
    /\ handed[i].ptr.off < handed[j].ptr.off + length(handed[j].str) + 1
    /\ handed[j].ptr.off < handed[i].ptr.off + length(handed[i].str) + 1

\* no block of a live arena has been released or dropped from its block list
BlocksKept ==
    \A a \in ArenaIds :
        arenas[a].state = "live" =>
            \A b \in 1..Len(arenas[a].mem) :
                arenas[a].mem[b].frees = 0 /\ b \in Range(arenas[a].blocks_)

\* C9 as stated: every pointer allocate returned lies inside one block of
\* its arena, no two returned regions overlap, no block is released or
\* replaced while the arena lives, and every returned pointer still reads
\* as the string that was stored, after any later allocation in this or
\* another arena.
C9_ArenaStability_AsClaimed ==
    /\ BlocksKept
    /\ \A i \in LiveHanded :
          /\ InOneBlock(i)
          /\ ReadString(handed[i].ptr) = handed[i].str
          /\ \A j \in LiveHanded : i # j => ~RegionsOverlap(i, j)

\* C9 amended: the same for every pointer returned by a call whose block
\* allocation did not fail; a call whose std::malloc fails returns the
\* static empty string, which is in no block and reads as "".
C9_ArenaStability ==
    /\ BlocksKept
    /\ \A i \in LiveHanded :
          IF handed[i].ptr = empty_str
          THEN ReadString(handed[i].ptr) = ""
          ELSE /\ InOneBlock(i)
               /\ ReadString(handed[i].ptr) = handed[i].str
               /\ \A j \in LiveHanded :
                     (i # j /\ handed[j].ptr # empty_str) => ~RegionsOverlap(i, j)

\* an oversized string was stored, a later string went to another block of
\* the same arena, and a still later one to the other arena
C9_Witness ==
    \E i, j, k \in LiveHanded :
        /\ i < j /\ j < k
        /\ handed[i].str = StrOver /\ handed[i].ptr # empty_str
        /\ handed[j].arena = handed[i].arena
        /\ handed[j].ptr # empty_str /\ handed[j].ptr.blk # handed[i].ptr.blk
        /\ handed[k].arena # handed[i].arena /\ handed[k].ptr # empty_str

-----------------------------------------------------------------------------
(* The structured builders (C4, C5, C10)                                   *)

\* a builder call has just returned ret to the caller
Returned(ret) ==
    call.pc = "idle" /\ ~aborted /\ last.op \in {"tag", "tokenize"} /\ last.ret = ret

\* the blocks allocated for document d that no release call has reached
LiveBlocks(d) == {k \in DOMAIN heap : k[2] = d /\ heap[k].frees = 0}

\* C4: whenever udpipe_tag_structured or udpipe_tokenize_structured returns
\* 0 after non-null arguments, out_doc is zeroed: sentences NULL, count 0
\* and arena NULL.
C4_FailedCallZeroed == Returned(0) => out_doc = ZeroDoc

\* C5: when a builder returns 0, the arena created for the call and every
\* token array built by it have been released already; nothing the call
\* allocated is still live.
C5_FailedCallReleased ==
    Returned(0) => arenas[last.d].state = "deleted" /\ LiveBlocks(last.d) = {}

\* the ids of the words of sentence s the claim keeps: those with id > 0
KeptIds(s) ==
    LET kept == SelectSeq(s, LAMBDA w : w.id > 0)
    IN  [i \in DOMAIN kept |-> kept[i].id]

\* the token ids of the i-th sentence record of doc, with its count
RecordIds(doc, i) ==
    LET sv == heap[doc.sentences].data[i]
        toks == heap[sv.tokens].data
    IN  [count |-> sv.count, ids |-> [k \in DOMAIN toks |-> toks[k].id]]

\* C10: whenever udpipe_tag_structured returns 1 for a text of sentences
\* S_1..S_n, the document has exactly n sentence records, and the i-th one
\* holds exactly the words of S_i with id > 0 in their order; the sentence
\* list is never truncated.
C10_AllSentencesReturned ==
    (Returned(1) /\ last.op = "tag") =>
        /\ out_doc.count = Len(Texts[last.text])
        /\ Len(heap[out_doc.sentences].data) = out_doc.count
        /\ \A i \in 1..out_doc.count :
              LET ids == KeptIds(Texts[last.text][i])
              IN  RecordIds(out_doc, i) = [count |-> Len(ids), ids |-> ids]

-----------------------------------------------------------------------------
(* The batch scheduler (C1, C2, C3, C6, C7, C8)                            *)

\* udpipe_tag_batch has returned to its caller
BatchReturned == sched.pc = "returned" /\ ~aborted

\* the caller has not released anything yet
NothingFreed ==
    ~hist.batchFreed /\ \A i \in DOMAIN hist.freeCalls : hist.freeCalls[i] = 0

\* how often the blocks of arena d, and the token arrays and the sentence
\* array of document d, have been released: the set of their counts
ArrayReleaseCounts(d) ==
    {arenas[d].mem[b].frees : b \in 1..Len(arenas[d].mem)}
        \cup {heap[k].frees : k \in {x \in DOMAIN heap :
                                         x[2] = d /\ x[1] \in {"tokens", "sentences"}}}

\* the same with the number of times the arena itself was deleted
ReleaseCounts(d) == {arenas[d].deletes} \cup ArrayReleaseCounts(d)

\* C1: if the Document Builder failed for at least one claimed text, then
\* udpipe_tag_batch returns 0 with *out_docs = NULL and *out_size = 0, every
\* slot of the result buffer is zeroed at that moment, and every arena,
\* token array and sentence array a worker allocated has been released; no
\* document of the batch reaches the caller.
C1_FailedBatchTornDown ==
    (BatchReturned /\ hist.failed # {}) =>
        /\ out.ret = 0 /\ out.docs = NULL /\ out.size = 0
        /\ \A i \in DOMAIN results : results[i] = ZeroDoc
        /\ \A d \in Slots :
              /\ arenas[d].state # "live"
              /\ 0 \notin ArrayReleaseCounts(d)
        /\ DocsKey \notin DOMAIN heap

\* a failed batch in which one slot had been populated, and the failing
\* worker had built a token array before it failed
C1_Witness ==
    /\ BatchReturned /\ out.ret = 0
    /\ \E d \in Slots \ hist.failed : SentencesKey(d) \in DOMAIN heap
    /\ \E d \in hist.failed : TokensKey(d, 1) \in DOMAIN heap

\* the words of sentence s of a batch text as the worker sees them
Processed(s, do_parse) == IF do_parse THEN parse(tag(s)) ELSE tag(s)

\* a string field of a token holds the word's string (or, after a refused
\* block request, the static empty string)
FieldHolds(p, s) == p = empty_str \/ ReadString(p) = s

\* token t is the record of word w
TokenOf(t, w) ==
    /\ t.id = w.id /\ t.head = w.head
    /\ t.start = (IF w.range THEN w.start ELSE 0)
    /\ t.end = (IF w.range THEN w.end ELSE 0)
    /\ FieldHolds(t.form, w.form) /\ FieldHolds(t.lemma, w.lemma)
    /\ FieldHolds(t.upos, w.upostag) /\ FieldHolds(t.xpostag, w.xpostag)
    /\ FieldHolds(t.feats, w.feats) /\ FieldHolds(t.deprel, w.deprel)

\* doc is the fully built document of text: a live arena, one record per
\* sentence, and in each the words of id > 0 in order
DocumentOf(doc, text, do_parse) ==
    /\ doc.arena # 0 /\ arenas[doc.arena].state = "live"
    /\ doc.sentences # NULL /\ heap[doc.sentences].frees = 0
    /\ doc.count = Len(Texts[text])
    /\ Len(heap[doc.sentences].data) = doc.count
    /\ \A i \in 1..doc.count :
          LET sv == heap[doc.sentences].data[i]
              kept == SelectSeq(Processed(Texts[text][i], do_parse),
                                LAMBDA w : w.id > 0)
          IN  /\ sv.tokens # NULL /\ heap[sv.tokens].frees = 0
              /\ sv.count = Len(kept)
              /\ Len(heap[sv.tokens].data) = sv.count
              /\ \A k \in 1..sv.count : TokenOf(heap[sv.tokens].data[k], kept[k])

\* every index 0..N-1 was claimed
AllClaimed ==
    \A i \in 0..(Len(sched.batch) - 1) : \E c \in hist.claims : c.index = i

\* the caller holds N documents, the i-th built from utf8_texts[i]
BatchDelivered ==
    /\ out.ret = 1 /\ out.size = Len(sched.batch) /\ out.docs # NULL
    /\ Len(heap[out.docs].data) = out.size
    /\ \A i \in 1..out.size :
          DocumentOf(heap[out.docs].data[i], sched.batch[i], sched.do_parse)

\* C2 as stated: if the flag is still true after the joins, every index was
\* claimed and udpipe_tag_batch returns 1 with *out_size = N and out_docs[i]
\* the document of utf8_texts[i].
C2_SuccessReturnsAll_AsClaimed ==
    (BatchReturned /\ success_flag /\ NothingFreed) => AllClaimed /\ BatchDelivered

\* C2 amended: the same unless std::malloc refuses the output array; then
\* every document is torn down and 0 is returned with *out_docs = NULL and
\* *out_size = 0.
C2_SuccessReturnsAll ==
    (BatchReturned /\ success_flag /\ NothingFreed) =>
        /\ AllClaimed
        /\ hist.failed = {}
        /\ IF out.malloc = "ok" THEN BatchDelivered
           ELSE /\ out.malloc = "null"
                /\ out.ret = 0 /\ out.docs = NULL /\ out.size = 0
                /\ \A i \in DOMAIN results : results[i] = ZeroDoc

\* two different texts, claimed by two different workers, delivered
C2_Witness ==
    /\ BatchReturned /\ out.ret = 1 /\ NothingFreed
    /\ out.size = 2 /\ sched.batch[1] # sched.batch[2]
    /\ \E c1, c2 \in hist.claims : c1.index = 0 /\ c2.index = 1 /\ c1.w # c2.w

\* C3: each index is claimed by at most one worker, a worker accesses
\* results[i] only for an index it claimed itself, and no other thread
\* touches a slot while workers run.
C3_ExclusiveSlots ==
    /\ \A c1, c2 \in hist.claims : c1.index = c2.index => c1 = c2
    /\ \A a \in hist.touched :
          \E c \in hist.claims : c.w = a[1] /\ c.index + 1 = a[2]
    /\ \A a, b \in hist.touched : a[2] = b[2] => a[1] = b[1]
    /\ ~hist.early

\* two workers are building the documents of their own slots at once
C3_Witness ==
    /\ sched.num_threads = 2
    /\ wk[1].pc = "loop" /\ wk[2].pc = "loop" /\ wk[1].pos = 1 /\ wk[2].pos = 1
    /\ <<1, wk[1].d>> \in hist.touched /\ <<2, wk[2].d>> \in hist.touched

\* the documents the caller released, by udpipe_free_doc or with the batch
Released(i) == hist.batchFreed \/ hist.freeCalls[i] > 0

\* C6: udpipe_free_doc on a zeroed document releases nothing and leaves it
\* zeroed; after udpipe_free_doc the three fields are zero, so further calls
\* release nothing; udpipe_free_batch on a batch with any slots already
\* zeroed releases every remaining arena, token array and sentence array
\* exactly once, and the outer array once.
C6_IdempotentRelease ==
    (BatchReturned /\ out.ret = 1) =>
        /\ heap[DocsKey].frees = (IF hist.batchFreed THEN 1 ELSE 0)
        /\ \A i \in 1..out.size :
              IF Released(i)
              THEN heap[DocsKey].data[i] = ZeroDoc /\ ReleaseCounts(i) = {1}
              ELSE heap[DocsKey].data[i] # ZeroDoc /\ ReleaseCounts(i) = {0}

\* the batch was released after udpipe_free_doc had been called twice on
\* one of its documents and never on the other
C6_Witness ==
    /\ BatchReturned /\ out.ret = 1 /\ out.size = 2 /\ hist.batchFreed
    /\ hist.freeCalls[1] = 2 /\ hist.freeCalls[2] = 0
    /\ heap[SentencesKey(1)].data # <<>>

\* the fetch_add calls worker w made while the flag was false
LateClaims(w) == {c \in hist.claims : c.w = w /\ ~c.flag}

\* C7 as stated: once the flag is false no worker performs a further
\* fetch-and-increment.
C7_NoClaimAfterFailure_AsClaimed == \A w \in Workers : LateClaims(w) = {}

\* C7 amended: a worker claims only after reading the flag as true in its
\* loop test, so once the flag is false each worker performs at most one
\* further fetch-and-increment (when it had passed its test before).
C7_FailFast == \A w \in Workers : Cardinality(LateClaims(w)) <= 1

\* a worker claimed a text of the batch while the flag was already false
C7_Witness ==
    \E c \in hist.claims : ~c.flag /\ c.index < Len(sched.batch)

\* C8: the scheduler reads the flag, tears down or copies a slot only after
\* every worker thread has terminated.
C8_Barrier ==
    /\ ~hist.early
    /\ sched.pc = "returned" =>
          /\ sched.joined = sched.num_threads
          /\ \A w \in 1..sched.num_threads : wk[w].pc = "done"

\* the call returned after two workers had each claimed a text
C8_Witness ==
    /\ BatchReturned /\ sched.num_threads = 2
    /\ \A w \in 1..2 : \E c \in hist.claims : c.w = w /\ c.index < Len(sched.batch)

-----------------------------------------------------------------------------
(* The tokenizer-only builder (C11)                                        *)

\* the tokens of every sentence record of doc
TokensOf(doc) ==
    UNION {Range(heap[heap[doc.sentences].data[i].tokens].data) :
               i \in 1..doc.count}

\* C11: every token of a document returned by udpipe_tokenize_structured
\* has head -1 and lemma, upos, xpostag, feats and deprel reading as the
\* empty string, whatever the engine's word carries in those fields.
C11_TokenizeFieldsEmpty ==
    (Returned(1) /\ last.op = "tokenize") =>
        \A t \in TokensOf(out_doc) :
            /\ t.head = -1
            /\ ReadString(t.lemma) = "" /\ ReadString(t.upos) = ""
            /\ ReadString(t.xpostag) = "" /\ ReadString(t.feats) = ""
            /\ ReadString(t.deprel) = ""

\* the tokenizer-only builder returned the text whose word "Go" carries a
\* lemma, a tag, a head and a relation in the engine
C11_Witness ==
    /\ Returned(1) /\ last.op = "tokenize" /\ out_doc.count = 2
    /\ \E w \in Range(Texts[last.text][2]) :
          /\ w.lemma # "" /\ w.head # -1 /\ w.deprel # ""
          /\ \E t \in TokensOf(out_doc) :
                t.id = w.id /\ ReadString(t.form) = w.form

-----------------------------------------------------------------------------
(* The three builders side by side (C12, C13, C16, C17, C18)               *)

\* the six string fields of a token
StringFields(t) == {t.form, t.lemma, t.upos, t.xpostag, t.feats, t.deprel}

\* p is a non-null pointer to a null-terminated string: the static empty
\* string, or a string stored with its terminator inside a block that has
\* not been released
IsCString(p) ==
    /\ p # NullStr
    /\ ReadString(p) \notin {"<null>", "<garbage>", "<dangling>"}
    /\ p # empty_str =>
          p.off + length(ReadString(p)) + 1 <= arenas[p.arena].mem[p.blk].size

\* the document the single-text call produced is in the caller's hands
SingleProduced == Returned(1) /\ out_doc.sentences # NULL

\* the batch the batch call produced is in the caller's hands
BatchProduced == BatchReturned /\ out.ret = 1 /\ ~hist.batchFreed

\* C12: every string field of every token of every document produced by
\* udpipe_tag_structured, udpipe_tokenize_structured or udpipe_tag_batch
\* is a non-null pointer to a null-terminated string, also when block
\* requests of the arena were refused while the document was built.
C12_StringFieldsValid ==
    /\ SingleProduced =>
          \A t \in TokensOf(out_doc) : \A p \in StringFields(t) : IsCString(p)
    /\ BatchProduced =>
          \A i \in 1..out.size :
              \A t \in TokensOf(heap[out.docs].data[i]) :
                  \A p \in StringFields(t) : IsCString(p)

\* a token whose form fell back to the static empty string while a later
\* field of the same token was stored in a block
Degraded(doc) ==
    \E t \in TokensOf(doc) :
        /\ t.form = empty_str
        /\ t.lemma # empty_str /\ ReadString(t.lemma) # ""

\* both calls produced a document with such a token
C12_Witness ==
    /\ SingleProduced /\ Degraded(out_doc)
    /\ BatchProduced /\ Degraded(heap[out.docs].data[1])

\* C13: a call with a null handle, a null text or a null output pointer
\* returns 0 at once: it creates no arena and no thread, allocates nothing
\* and leaves the caller's output structure as it was.
C13_NullArgsRejected ==
    sched.pc # "idle" =>
        /\ sched.nullArg \in {"handle", "text", "out_doc"} =>
              /\ call = IdleCall
              /\ last.op \in {"tag", "tokenize"} /\ last.ret = 0
              /\ out_doc = last.pre
              /\ arenas[SingleDoc] = NoArena
              /\ \A k \in DOMAIN heap : k[2] # SingleDoc
        /\ sched.nullArg \in {"handle", "text", "out_docs", "out_size"} =>
              /\ sched.pc = "returned" /\ out.ret = 0
              /\ out.docs = sched.pre.docs /\ out.size = sched.pre.size
              /\ arenas[BatchDoc] = NoArena
              /\ \A k \in DOMAIN heap : k[2] # BatchDoc /\ k # DocsKey
              /\ results = <<>> /\ next_index = 0
              /\ sched.spawned = 0 /\ \A w \in Workers : wk[w] = IdleWorker

\* both calls were given a null text while the caller's output structures
\* held stale values
C13_Witness ==
    /\ sched.pc = "returned" /\ sched.nullArg = "text"
    /\ last.ret = 0 /\ out_doc = StaleDoc /\ out.size = StaleOut.size

\* the builder with locals c left its loop because the token array of the
\* sentence it was materializing could not be allocated
ArrayRefused(c) == c.pc = "after" /\ c.error = "alloc failure"

\* the tokens the sentence a builder is materializing keeps
SurvivingIds(c) == KeptIds(Texts[c.text][c.pos + 1])

\* C16: a sentence with no word of id > 0 becomes a sentence record of
\* count 0 and never makes a builder fail, whatever std::malloc returns for
\* the zero-byte token array: a builder reports an allocation failure only
\* for a sentence that has tokens.
C16_ZeroTokenSentenceOk ==
    /\ ArrayRefused(call) => SurvivingIds(call) # <<>>
    /\ ArrayRefused(wk[1]) => SurvivingIds(wk[1]) # <<>>

\* C17: every block is released at most once, whatever path the calls
\* took: the token arrays, the sentence arrays, the storage of the local
\* sentence lists, the blocks of the arenas and the arenas themselves.
C17_ReleasedAtMostOnce ==
    /\ \A k \in DOMAIN heap : heap[k].frees <= 1
    /\ \A d \in DOMAIN arenas :
          /\ arenas[d].deletes <= 1
          /\ \A b \in 1..Len(arenas[d].mem) : arenas[d].mem[b].frees <= 1

\* tokens t and u are equal: ids, heads, offsets and the strings read
SameToken(t, u) ==
    /\ t.id = u.id /\ t.head = u.head /\ t.start = u.start /\ t.end = u.end
    /\ ReadString(t.form) = ReadString(u.form)
    /\ ReadString(t.lemma) = ReadString(u.lemma)
    /\ ReadString(t.upos) = ReadString(u.upos)
    /\ ReadString(t.xpostag) = ReadString(u.xpostag)
    /\ ReadString(t.feats) = ReadString(u.feats)
    /\ ReadString(t.deprel) = ReadString(u.deprel)

\* documents a and b have the same sentences with the same tokens
SameDocument(a, b) ==
    /\ a.count = b.count
    /\ \A i \in 1..a.count :
          LET sa == heap[a.sentences].data[i]
              sb == heap[b.sentences].data[i]
          IN  /\ sa.count = sb.count
              /\ \A k \in 1..sa.count :
                    SameToken(heap[sa.tokens].data[k], heap[sb.tokens].data[k])

\* udpipe_tag_structured and udpipe_tag_batch were called with the same
\* arguments and both have returned
BothReturned ==
    /\ sched.pc = "returned" /\ ~aborted
    /\ sched.nullArg \in {"none", "handle", "text"}
    /\ call.pc = "idle" /\ last.op = "tag"

\* the worker's builder reported no failure for its text: if the batch call
\* failed all the same, std::malloc refused it the sentence array (line
\* 372) or the output array (line 397)
BatchBuilderOk == wk[1].error = "" /\ wk[1].current_success

\* C18: for every behaviour of the engine, udpipe_tag_batch on the
\* one-element batch [text] succeeds when udpipe_tag_structured on text
\* succeeds (unless an array is refused to the batch call only), and then
\* the two documents have the same sentences with the same token ids,
\* heads, strings and offsets.
C18_BatchEqualsSingle ==
    BothReturned =>
        /\ (last.ret = 1 /\ out.ret # 1) => BatchBuilderOk
        /\ (last.ret = 1 /\ out.ret = 1 /\ ~hist.batchFreed) =>
              SameDocument(heap[out.docs].data[1], out_doc)

-----------------------------------------------------------------------------
(* The size of the thread pool (C14)                                       *)

Min(a, b) == IF a < b THEN a ELSE b

\* the loop that starts the threads has ended
PoolStarted == sched.pc = "running" /\ sched.spawned = sched.num_threads

\* the threads that were started
StartedThreads == {w \in DOMAIN wk : wk[w].pc # "none"}

\* C14 as stated: for every batch size N and hardware parallelism H the
\* number of threads started is min(H, N) and at least 1.
C14_PoolSize_AsClaimed ==
    PoolStarted =>
        /\ Cardinality(StartedThreads) = Min(sched.hw, Len(sched.batch))
        /\ Cardinality(StartedThreads) >= 1

\* C14 amended: the number of threads started is min(max(H, 1), N): a
\* reported parallelism of 0 counts as 1; it is at least 1 exactly when the
\* batch is not empty.
C14_PoolSize ==
    PoolStarted =>
        /\ Cardinality(StartedThreads) = Min(Max(sched.hw, 1), Len(sched.batch))
        /\ Cardinality(StartedThreads) >= 1 <=> Len(sched.batch) >= 1

\* the pool of a batch of three texts with more processors than texts
C14_Witness ==
    /\ PoolStarted /\ Len(sched.batch) = 3 /\ sched.hw > 3
    /\ StartedThreads = 1..3

-----------------------------------------------------------------------------
(* The size of a new block (C15)                                           *)

\* the size of the request that made arena a allocate its block b: the
\* length of the first string stored in it, plus one
BlockRequest(a, b) == arenas[a].mem[b].writes[1].n

\* every block an arena allocated is in its block list
BlocksListed ==
    \A a \in ArenaIds :
        \A b \in 1..Len(arenas[a].mem) : b \in Range(arenas[a].blocks_)

\* C15 as stated: whenever a request does not fit in the current block, the
\* new block's size is the larger of the size the arena was constructed
\* with and the size requested, whatever was requested before, and the old
\* block stays in the block list.
C15_BlockSize_AsClaimed ==
    /\ BlocksListed
    /\ \A a \in ArenaIds :
          \A b \in 1..Len(arenas[a].mem) :
              arenas[a].mem[b].size =
                  (IF BlockRequest(a, b) > DEFAULT_BLOCK_SIZE
                   THEN BlockRequest(a, b) ELSE DEFAULT_BLOCK_SIZE)

\* C15 amended: the new block's size is the larger of the size requested
\* and the arena's current block size, which is the size the arena was
\* constructed with until a block is allocated and the size of the block
\* allocated last from then on; the old block stays in the block list.
C15_BlockSize ==
    /\ BlocksListed
    /\ \A a \in ArenaIds :
          \A b \in 1..Len(arenas[a].mem) :
              LET block_size == IF b = 1 THEN DEFAULT_BLOCK_SIZE
                                ELSE arenas[a].mem[b - 1].size
              IN  arenas[a].mem[b].size =
                      (IF BlockRequest(a, b) > block_size
                       THEN BlockRequest(a, b) ELSE block_size)

\* after an oversized request, a small request that did not fit any more
\* got a block of the oversized size
C15_Witness ==
    \E a \in ArenaIds :
        /\ Len(arenas[a].mem) >= 2
        /\ arenas[a].mem[1].size > DEFAULT_BLOCK_SIZE
        /\ BlockRequest(a, 2) <= DEFAULT_BLOCK_SIZE
        /\ arenas[a].mem[2].size = arenas[a].mem[1].size

-----------------------------------------------------------------------------
(* Termination of the batch call (C19)                                     *)

\* C19: with every engine call returning and the threads scheduled fairly,
\* udpipe_tag_batch always terminates: every worker leaves its loop, all
\* joins complete and the call returns 0 or 1.
C19_BatchTerminates ==
    (sched.pc = "running") ~>
        (/\ sched.pc = "returned" /\ out.ret \in {0, 1}
         /\ sched.joined = sched.num_threads
         /\ \A w \in 1..sched.num_threads : wk[w].pc = "done")

=============================================================================
